---- MODULE Spec2Model ----
(***************************************************************************)
(* The article collector of GoodNews (scraping/main.py): the length-header *)
(* codec, the status check, and main()'s session over one unix stream      *)
(* socket.  Byte strings are sequences of one-character strings.           *)
(***************************************************************************)
EXTENDS Integers, Sequences, FiniteSets, TLC

\* ------------------------------------------------------------------ bounds

\* The registry scraping.API_CLIENTS holds 1..MaxClients collector classes.
MaxClients == 3

\* ------------------------------------------------------- program constants

\* max_attempts = 3
MAX_ATTEMPTS == 3

\* ljust(32), recv(32)
HEADER_WIDTH == 32

\* ------------------------------------------------------------ byte strings

Digits == <<"0", "1", "2", "3", "4", "5", "6", "7", "8", "9">>

DigitSet == {Digits[k] : k \in 1..10}

DigitVal(c) == (CHOOSE k \in 1..10 : Digits[k] = c) - 1

Spaces(k) == [j \in 1..k |-> " "]

b_empty == <<>>

b_NEXT == <<"N", "E", "X", "T">>

b_DONE == <<"D", "O", "N", "E">>

b_MSG_OK_DONE == <<"M", "S", "G", "-", "O", "K", "-", "D", "O", "N", "E">>

b_MSG == <<"M", "S", "G", "-">>

b_DASH_DONE == <<"-", "D", "O", "N", "E">>

b_length_open == <<"<", "l", "e", "n", "g", "t", "h", " ">>

\* bytes.startswith
startswith(s, p) == Len(s) >= Len(p) /\ SubSeq(s, 1, Len(p)) = p

\* bytes.endswith
endswith(s, p) == Len(s) >= Len(p) /\ SubSeq(s, Len(s) - Len(p) + 1, Len(s)) = p

\* str(n).encode() for n >= 0: the decimal digits, most significant first
RECURSIVE str_int(_)
str_int(n) ==
    IF n < 10 THEN <<Digits[n + 1]>>
    ELSE str_int(n \div 10) \o <<Digits[(n % 10) + 1]>>

\* rjust in ljust's place: the padding goes in front
ljust_as_rjust(s, width) ==
    IF Len(s) >= width THEN s ELSE [j \in 1..(width - Len(s)) |-> " "] \o s

\* bytes.ljust(width): right-padded with spaces, unchanged when already wider
ljust(s, width) ==
    IF Len(s) >= width THEN s ELSE s \o Spaces(width - Len(s))

\* bytes.strip(chars): every leading and trailing byte that is in chars goes
RECURSIVE lstrip(_, _)
lstrip(s, chars) ==
    IF s # <<>> /\ Head(s) \in chars THEN lstrip(Tail(s), chars) ELSE s

RECURSIVE rstrip(_, _)
rstrip(s, chars) ==
    IF s # <<>> /\ s[Len(s)] \in chars
    THEN rstrip(SubSeq(s, 1, Len(s) - 1), chars)
    ELSE s

strip(s, chars) == rstrip(lstrip(s, chars), chars)

\* the bytes of b'<length> '
HeaderStripChars == {"<", "l", "e", "n", "g", "t", "h", ">", " "}

\* what int() skips around the number
Whitespace == {" ", "\t", "\n"}

\* int()'s digit part: digits, single underscores allowed between digits
RECURSIVE digits_ok(_, _)
digits_ok(s, afterDigit) ==
    IF s = <<>> THEN afterDigit
    ELSE IF Head(s) \in DigitSet THEN digits_ok(Tail(s), TRUE)
    ELSE IF Head(s) = "_" THEN afterDigit /\ Tail(s) # <<>>
                               /\ Head(Tail(s)) \in DigitSet
                               /\ digits_ok(Tail(s), FALSE)
    ELSE FALSE

RECURSIVE digits_value(_, _)
digits_value(s, acc) ==
    IF s = <<>> THEN acc
    ELSE IF Head(s) = "_" THEN digits_value(Tail(s), acc)
    ELSE digits_value(Tail(s), 10 * acc + DigitVal(Head(s)))

\* the decimal text of the number int() read: no underscores, no leading
\* zeros
RECURSIVE drop_underscores(_)
drop_underscores(s) ==
    IF s = <<>> THEN <<>>
    ELSE IF Head(s) = "_" THEN drop_underscores(Tail(s))
    ELSE <<Head(s)>> \o drop_underscores(Tail(s))

RECURSIVE drop_leading_zeros(_)
drop_leading_zeros(s) ==
    IF Len(s) > 1 /\ Head(s) = "0" THEN drop_leading_zeros(Tail(s)) ELSE s

\* int(b): [ok |-> FALSE] is ValueError; else the int, which has no width in
\* Python, as its sign and its decimal digits
py_int(b) ==
    LET t    == strip(b, Whitespace)
        sgn  == IF t # <<>> /\ Head(t) \in {"+", "-"} THEN Head(t) ELSE ""
        body == IF sgn = "" THEN t ELSE Tail(t)
        text == drop_leading_zeros(drop_underscores(body))
    IN  IF digits_ok(body, FALSE)
        THEN [ok |-> TRUE, negative |-> sgn = "-" /\ text # <<"0">>,
              digits |-> text]
        ELSE [ok |-> FALSE, negative |-> FALSE, digits |-> <<>>]

\* an int of at most 9 digits as a number of the model
int_value(r) ==
    IF r.negative THEN 0 - digits_value(r.digits, 0)
    ELSE digits_value(r.digits, 0)

\* ------------------------------------------------------------ frame codec

\* the header of add_length_header, from length = str(len(data)).encode():
\* (b'<length ' + length + b'>').ljust(32)
length_header(length) ==
    ljust(b_length_open \o length \o <<">">>, HEADER_WIDTH)

\* add_length_header(data)
add_length_header(data) ==
    LET length == str_int(Len(data))
        header == length_header(length)
    IN  header \o data

\* lstrip in strip's place: what follows the digits stays
decode_length_header_lstrip(raw_header) ==
    LET content_length == lstrip(raw_header, HeaderStripChars)
    IN  py_int(content_length)

\* consume_length_header, after the recv: strip, then int()
decode_length_header(raw_header) ==
    LET content_length == strip(raw_header, HeaderStripChars)
    IN  py_int(content_length)

\* -------------------------------------------------------- accept_status

\* accept_status without its raise: an empty status is one more rejection
accept_status_no_raise(status) ==
    IF status = b_MSG_OK_DONE THEN "true"
    ELSE "false"

\* accept_status raising for whatever does not start with MSG-
accept_status_strict(status) ==
    IF status = b_MSG_OK_DONE THEN "true"
    ELSE IF status = <<>> \/ ~startswith(status, b_MSG) THEN "raise"
    ELSE "false"

\* accept_status(status): "raise" is the InterruptedError, else the boolean
accept_status(status) ==
    IF status = b_MSG_OK_DONE THEN "true"
    ELSE IF status = <<>> THEN "raise"
    ELSE "false"

\* the branches with the test of the suffix before the test of the prefix
status_class_end_first(status) ==
    IF status = b_MSG_OK_DONE THEN "accepted"
    ELSE IF status = <<>> THEN "connection-closed"
    ELSE IF ~endswith(status, b_DASH_DONE) THEN "malformed-end"
    ELSE IF ~startswith(status, b_MSG) THEN "malformed-start"
    ELSE "malformed-other"

\* the branch of accept_status that decides: what is logged, or done
status_class(status) ==
    IF status = b_MSG_OK_DONE THEN "accepted"
    ELSE IF status = <<>> THEN "connection-closed"
    ELSE IF ~startswith(status, b_MSG) THEN "malformed-start"
    ELSE IF ~endswith(status, b_DASH_DONE) THEN "malformed-end"
    ELSE "malformed-other"

\* ------------------------------------------------------------- json.dumps

\* what a collector's results() may return: lists of article ids; a value
\* json.dumps has no encoding for, such as a set (TypeError); and a mapping
\* whose items() raises json.JSONDecodeError, the one class main() catches
Unbound == [kind |-> "unbound", items |-> <<>>]

Articles ==
    { [kind |-> "list", items |-> <<>>],
      [kind |-> "list", items |-> <<7>>],
      [kind |-> "set", items |-> <<>>],
      [kind |-> "bad-mapping", items |-> <<>>] }

RECURSIVE json_items(_)
json_items(xs) ==
    IF xs = <<>> THEN <<>>
    ELSE IF Len(xs) = 1 THEN str_int(Head(xs))
    ELSE str_int(Head(xs)) \o <<",", " ">> \o json_items(Tail(xs))

\* json.dumps(articles).encode(): the bytes, or the exception raised
json_dumps(a) ==
    IF a.kind = "set" THEN [raised |-> "TypeError", data |-> <<>>]
    ELSE IF a.kind = "bad-mapping"
         THEN [raised |-> "JSONDecodeError", data |-> <<>>]
    ELSE [raised |-> "none", data |-> <<"[">> \o json_items(a.items) \o <<"]">>]

\* ------------------------------------------------------------- the peers

\* what client.request() may return
StatusCodes == {199, 200, 299, 300, 404}

b_ERR == <<"E", "R", "R">>

b_MSG_X == <<"M", "S", "G", "-", "X">>

b_MSG_NO_DONE == <<"M", "S", "G", "-", "N", "O", "-", "D", "O", "N", "E">>

\* The server's answers to one frame, each a sequence of segments as the
\* stream delivers them: framed acks of every class, an empty body, headers
\* that do not decode, a header that declares less than follows, a header
\* with nothing after it, and an accepted ack delivered in two segments.
ServerReplies ==
    { <<add_length_header(b_MSG_OK_DONE)>>,
      <<add_length_header(b_ERR)>>,
      <<add_length_header(b_MSG_X)>>,
      <<add_length_header(b_MSG_NO_DONE)>>,
      <<add_length_header(b_empty)>>,
      <<ljust(<<"o", "o", "p", "s">>, HEADER_WIDTH)>>,
      <<ljust(b_length_open \o <<"-", "1", ">">>, HEADER_WIDTH)>>,
      <<ljust(b_length_open \o <<"3", ">">>, HEADER_WIDTH) \o b_MSG_OK_DONE>>,
      <<ljust(b_length_open \o <<"1", "1", ">">>, HEADER_WIDTH)>>,
      <<b_length_open \o <<"1", "1", ">">>,
        Spaces(HEADER_WIDTH - 11) \o b_MSG_OK_DONE>> }

Min(a, b) == IF a < b THEN a ELSE b

\* socket.recv(bufsize) on a stream: at most bufsize bytes of what has
\* arrived, b'' for bufsize 0 or at end of stream
recv_data(buf, bufsize) ==
    IF bufsize = 0 \/ buf = <<>> THEN <<>>
    ELSE SubSeq(Head(buf), 1, Min(bufsize, Len(Head(buf))))

\* the stream after that recv
recv_rest(buf, bufsize) ==
    IF bufsize = 0 \/ buf = <<>> THEN buf
    ELSE IF bufsize >= Len(Head(buf)) THEN Tail(buf)
    ELSE <<SubSeq(Head(buf), bufsize + 1, Len(Head(buf)))>> \o Tail(buf)

\* recv returns at once; with nothing to read and the peer open it blocks
recv_ready(buf, peerState, bufsize) ==
    bufsize = 0 \/ buf # <<>> \/ peerState = "closed"

\* ------------------------------------------------------------------ state

VARIABLES
    n,              \* len(scraping.API_CLIENTS)
    pc,             \* where main() is
    sock,           \* the socket: "none", "open", "closed"
    i,              \* enumerate's index, counted from 1
    articles,       \* client.results()
    send_data,      \* [bound |-> FALSE] until first assigned
    max_attempts,
    status_length,
    status,
    exc,            \* the exception propagating out of main, or "none"
    inbuf,          \* segments the server sent that main has not read
    peer,           \* the server's end: "open", "closed"
    wire,           \* what main sent, in order: [by |-> client, data |-> bytes]
    requests,       \* history: calls of request() per client
    code,           \* history: what the last request() returned
    results,        \* history: calls of results() per client
    instantiated,   \* history: clients constructed
    outcome,        \* history: how each client's turn ended
    returned,       \* history: what each client's results() returned
    acks,           \* history: how main took the answers it read: the
                    \* values of accept_status, and the headers it
                    \* could not use
    reads,          \* history: recv calls that returned
    fn,             \* a function called on its own: its name,
    arg,            \* its argument,
    ret             \* and what it returned

vars == <<n, pc, sock, i, articles, send_data, max_attempts, status_length,
          status, exc, inbuf, peer, wire, requests, code, results,
          instantiated, outcome, returned, acks, reads, fn, arg, ret>>

\* the functions called on their own play no part in a run of main()
unit == <<fn, arg, ret>>

locals == <<i, articles, send_data, max_attempts, status_length, status>>

hist == <<requests, code, results, instantiated, outcome, returned, acks,
          reads>>

Clients == 1..n

Init ==
    /\ n \in 1..MaxClients
    /\ pc = "socket"
    /\ sock = "none"
    /\ i = 0
    /\ articles = Unbound
    /\ send_data = [bound |-> FALSE, data |-> <<>>]
    /\ max_attempts = 0
    /\ status_length = 0
    /\ status = <<>>
    /\ exc = "none"
    /\ inbuf = <<>>
    /\ peer = "open"
    /\ wire = <<>>
    /\ requests = [c \in 1..MaxClients |-> 0]
    /\ code = 0
    /\ results = [c \in 1..MaxClients |-> 0]
    /\ instantiated = 0
    /\ outcome = [c \in 1..MaxClients |-> "none"]
    /\ returned = [c \in 1..MaxClients |-> Unbound]
    /\ acks = {}
    /\ reads = 0
    /\ fn = "main"
    /\ arg = <<>>
    /\ ret = <<>>

\* an exception leaves main(): the with-block's exit runs next
Raise(e) ==
    /\ exc' = e
    /\ pc' = "raise"

\* sock.sendall(data), peer open
sendall(by, data) == wire' = Append(wire, [by |-> by, data |-> data])

\* ---------------------------------------------------------------- main()

\* socket.socket(AF_UNIX, SOCK_STREAM): the with-block is entered only if
\* the socket was made
CreateSocket ==
    /\ pc = "socket"
    /\ \/ /\ sock' = "open"
          /\ pc' = "connect"
          /\ exc' = exc
       \/ /\ sock' = sock
          /\ pc' = "terminated"
          /\ exc' = "OSError"
    /\ UNCHANGED <<unit, n, locals, inbuf, peer, wire, hist>>

\* the DONE of line 83 in a finally clause: sent on the way out of a
\* failed connect too
Connect_DoneInFinally ==
    /\ pc = "connect"
    /\ \/ /\ pc' = "for"
          /\ exc' = exc
       \/ /\ pc' = "done"
          /\ exc' = "ConnectionRefusedError"
    /\ UNCHANGED <<unit, n, sock, locals, inbuf, peer, wire, hist>>

\* sock.connect(scraping.SOCKET_PATH)
Connect ==
    /\ pc = "connect"
    /\ \/ /\ pc' = "for"
          /\ exc' = exc
       \/ Raise("ConnectionRefusedError")
    /\ UNCHANGED <<unit, n, sock, locals, inbuf, peer, wire, hist>>

\* for i, client in enumerate(cls() for cls in scraping.API_CLIENTS):
\* the next class is instantiated, or the loop is over
ForNext ==
    /\ pc = "for"
    /\ IF i < n
       THEN /\ i' = i + 1
            /\ instantiated' = instantiated + 1
            /\ pc' = "request"
       ELSE /\ pc' = "done"
            /\ UNCHANGED <<i, instantiated>>
    /\ UNCHANGED <<unit, n, sock, articles, send_data, max_attempts, status_length,
                   status, exc, inbuf, peer, wire, requests, code, results,
                   outcome, returned, acks, reads>>

\* the test with its upper end included
in_2xx_inclusive(c) == 200 <= c /\ c <= 300

\* the test of line 57 on request()'s return value
in_2xx(c) == 200 <= c /\ c < 300

\* line 81 outside the if of line 57: a skipped collector reaches it too
Request_NextOnSkip ==
    /\ pc = "request"
    /\ requests' = [requests EXCEPT ![i] = @ + 1]
    /\ \/ \E returned_code \in StatusCodes :
             /\ code' = returned_code
             /\ IF in_2xx(returned_code)
                THEN /\ pc' = "results"
                     /\ UNCHANGED <<outcome, exc>>
                ELSE /\ pc' = "after_while"
                     /\ outcome' = [outcome EXCEPT ![i] = "skipped"]
                     /\ exc' = exc
       \/ /\ Raise("RequestException")
          /\ outcome' = [outcome EXCEPT ![i] = "fatal"]
          /\ code' = code
    /\ UNCHANGED <<unit, n, sock, locals, inbuf, peer, wire, results, instantiated,
                   returned, acks, reads>>

\* if 200 <= client.request() < 300: ... ; a request() that throws leaves main
Request ==
    /\ pc = "request"
    /\ requests' = [requests EXCEPT ![i] = @ + 1]
    /\ \/ \E returned_code \in StatusCodes :
             /\ code' = returned_code
             /\ IF in_2xx(returned_code)
                THEN /\ pc' = "results"
                     /\ UNCHANGED <<outcome, exc>>
                ELSE /\ pc' = "for"
                     /\ outcome' = [outcome EXCEPT ![i] = "skipped"]
                     /\ exc' = exc
       \/ /\ Raise("RequestException")
          /\ outcome' = [outcome EXCEPT ![i] = "fatal"]
          /\ code' = code
    /\ UNCHANGED <<unit, n, sock, locals, inbuf, peer, wire, results, instantiated,
                   returned, acks, reads>>

\* articles = client.results()
Results ==
    /\ pc = "results"
    /\ results' = [results EXCEPT ![i] = @ + 1]
    /\ \E a \in Articles :
          /\ articles' = a
          /\ returned' = [returned EXCEPT ![i] = a]
    /\ pc' = "dumps"
    /\ UNCHANGED <<unit, n, sock, i, send_data, max_attempts, status_length, status,
                   exc, inbuf, peer, wire, requests, code, instantiated, outcome,
                   acks, reads>>

\* max_attempts set once, for the first payload, and never again
Dumps_SharedBudget ==
    /\ pc = "dumps"
    /\ LET r == json_dumps(articles)
       IN  IF r.raised = "none"
           THEN /\ send_data' = [bound |-> TRUE, data |-> r.data]
                /\ max_attempts' = IF send_data.bound THEN max_attempts
                                   ELSE MAX_ATTEMPTS
                /\ pc' = "while"
                /\ UNCHANGED <<exc, outcome>>
           ELSE IF r.raised = "JSONDecodeError"
           THEN IF send_data.bound
                THEN /\ pc' = "for"
                     /\ outcome' = [outcome EXCEPT ![i] = "serialize-failed"]
                     /\ UNCHANGED <<send_data, max_attempts, exc>>
                ELSE /\ Raise("UnboundLocalError")
                     /\ outcome' = [outcome EXCEPT ![i] = "fatal"]
                     /\ UNCHANGED <<send_data, max_attempts>>
           ELSE /\ Raise(r.raised)
                /\ outcome' = [outcome EXCEPT ![i] = "fatal"]
                /\ UNCHANGED <<send_data, max_attempts>>
    /\ UNCHANGED <<unit, n, sock, i, articles, status_length, status, inbuf, peer,
                   wire, requests, code, results, instantiated, returned, acks, reads>>

\* try: send_data = json.dumps(articles).encode()
\* except json.JSONDecodeError: print(f'...{send_data}'); continue
\* max_attempts = 3
Dumps ==
    /\ pc = "dumps"
    /\ LET r == json_dumps(articles)
       IN  IF r.raised = "none"
           THEN /\ send_data' = [bound |-> TRUE, data |-> r.data]
                /\ max_attempts' = MAX_ATTEMPTS
                /\ pc' = "while"
                /\ UNCHANGED <<exc, outcome>>
           ELSE IF r.raised = "JSONDecodeError"
           THEN IF send_data.bound
                THEN /\ pc' = "for"
                     /\ outcome' = [outcome EXCEPT ![i] = "serialize-failed"]
                     /\ UNCHANGED <<send_data, max_attempts, exc>>
                ELSE /\ Raise("UnboundLocalError")
                     /\ outcome' = [outcome EXCEPT ![i] = "fatal"]
                     /\ UNCHANGED <<send_data, max_attempts>>
           ELSE /\ Raise(r.raised)
                /\ outcome' = [outcome EXCEPT ![i] = "fatal"]
                /\ UNCHANGED <<send_data, max_attempts>>
    /\ UNCHANGED <<unit, n, sock, i, articles, status_length, status, inbuf, peer,
                   wire, requests, code, results, instantiated, returned, acks, reads>>

\* the frame sent and the loop left at once: nothing is read back
WhileSend_FireAndForget ==
    /\ pc = "while"
    /\ IF max_attempts > 0
       THEN IF peer = "open"
            THEN /\ sendall(i, add_length_header(send_data.data))
                 /\ pc' = "after_while"
                 /\ UNCHANGED <<exc, outcome>>
            ELSE /\ Raise("BrokenPipeError")
                 /\ outcome' = [outcome EXCEPT ![i] = "fatal"]
                 /\ wire' = wire
       ELSE /\ pc' = "after_while"
            /\ UNCHANGED <<wire, exc, outcome>>
    /\ UNCHANGED <<unit, n, sock, locals, inbuf, peer, requests, code, results,
                   instantiated, returned, acks, reads>>

\* while max_attempts > 0: sock.sendall(add_length_header(send_data))
\* a sendall to a peer that has closed raises BrokenPipeError
WhileSend ==
    /\ pc = "while"
    /\ IF max_attempts > 0
       THEN IF peer = "open"
            THEN /\ sendall(i, add_length_header(send_data.data))
                 /\ pc' = "reply"
                 /\ UNCHANGED <<exc, outcome>>
            ELSE /\ Raise("BrokenPipeError")
                 /\ outcome' = [outcome EXCEPT ![i] = "fatal"]
                 /\ wire' = wire
       ELSE /\ pc' = "after_while"
            /\ UNCHANGED <<wire, exc, outcome>>
    /\ UNCHANGED <<unit, n, sock, locals, inbuf, peer, requests, code, results,
                   instantiated, returned, acks, reads>>

\* the server answers the frame, or closes its end, or both
ServerReply ==
    /\ pc = "reply"
    /\ \/ /\ \E reply \in ServerReplies : inbuf' = inbuf \o reply
          /\ peer' \in {"open", "closed"}
       \/ /\ inbuf' = inbuf
          /\ peer' = "closed"
    /\ pc' = "recv_header"
    /\ UNCHANGED <<unit, n, sock, locals, exc, wire, hist>>

\* status_length = consume_length_header(sock):
\* raw_header = connection.recv(32); int(raw_header.strip(b'<length> '))
ConsumeLengthHeader ==
    /\ pc = "recv_header"
    /\ recv_ready(inbuf, peer, HEADER_WIDTH)
    /\ LET raw_header == recv_data(inbuf, HEADER_WIDTH)
           r == decode_length_header(raw_header)
       IN  /\ inbuf' = recv_rest(inbuf, HEADER_WIDTH)
           /\ reads' = reads + 1
           /\ IF r.ok
              THEN /\ status_length' = int_value(r)
                   /\ pc' = "recv_status"
                   /\ UNCHANGED <<exc, outcome, acks>>
              ELSE /\ Raise("ValueError")
                   /\ outcome' = [outcome EXCEPT ![i] = "fatal"]
                   /\ acks' = acks \cup {"undecodable-header"}
                   /\ UNCHANGED status_length
    /\ UNCHANGED <<unit, n, sock, i, articles, send_data, max_attempts, status, peer,
                   wire, requests, code, results, instantiated, returned>>

\* status = sock.recv(status_length); a negative bufsize is a ValueError
RecvStatus ==
    /\ pc = "recv_status"
    /\ IF status_length < 0
       THEN /\ Raise("ValueError")
            /\ outcome' = [outcome EXCEPT ![i] = "fatal"]
            /\ acks' = acks \cup {"negative-length"}
            /\ UNCHANGED <<status, inbuf, reads>>
       ELSE /\ recv_ready(inbuf, peer, status_length)
            /\ status' = recv_data(inbuf, status_length)
            /\ inbuf' = recv_rest(inbuf, status_length)
            /\ reads' = reads + 1
            /\ pc' = "decide"
            /\ UNCHANGED <<exc, outcome, acks>>
    /\ UNCHANGED <<unit, n, sock, i, articles, send_data, max_attempts,
                   status_length, peer, wire, requests, code, results, instantiated,
                   returned>>

\* the break of line 75 missing: an accepted attempt is counted and the
\* loop goes on
Decide_NoBreak ==
    /\ pc = "decide"
    /\ acks' = acks \cup {accept_status(status)}
    /\ LET accepted == accept_status(status)
       IN  IF accepted = "raise"
           THEN /\ Raise("InterruptedError")
                /\ outcome' = [outcome EXCEPT ![i] = "fatal"]
                /\ UNCHANGED max_attempts
           ELSE /\ max_attempts' = max_attempts - 1
                /\ pc' = "while"
                /\ outcome' = IF accepted = "true"
                              THEN [outcome EXCEPT ![i] = "accepted"]
                              ELSE outcome
                /\ exc' = exc
    /\ UNCHANGED <<unit, n, sock, i, articles, send_data, status_length, status,
                   inbuf, peer, wire, requests, code, results, instantiated,
                   returned, reads>>

\* if accept_status(status): break
\* max_attempts -= 1
Decide ==
    /\ pc = "decide"
    /\ acks' = acks \cup {accept_status(status)}
    /\ LET accepted == accept_status(status)
       IN  IF accepted = "raise"
           THEN /\ Raise("InterruptedError")
                /\ outcome' = [outcome EXCEPT ![i] = "fatal"]
                /\ UNCHANGED max_attempts
           ELSE IF accepted = "true"
           THEN /\ pc' = "after_while"
                /\ outcome' = [outcome EXCEPT ![i] = "accepted"]
                /\ UNCHANGED <<max_attempts, exc>>
           ELSE /\ max_attempts' = max_attempts - 1
                /\ pc' = "while"
                /\ UNCHANGED <<exc, outcome>>
    /\ UNCHANGED <<unit, n, sock, i, articles, send_data, status_length, status,
                   inbuf, peer, wire, requests, code, results, instantiated,
                   returned, reads>>

\* the test against len(scraping.API_CLIENTS), not len - 1
more_clients_off_by_one(idx, count) == idx - 1 < count

\* the test of line 81: i counts from 0 there, from 1 here
more_clients(idx, count) == idx - 1 < count - 1

\* if max_attempts == 0: print(...)
\* if i < len(scraping.API_CLIENTS) - 1: sock.sendall(b'NEXT')
AfterWhile ==
    /\ pc = "after_while"
    /\ LET ended == IF max_attempts = 0 THEN "exhausted" ELSE outcome[i]
       IN  IF more_clients(i, n)
           THEN IF peer = "open"
                THEN /\ sendall(i, b_NEXT)
                     /\ pc' = "for"
                     /\ outcome' = [outcome EXCEPT ![i] = ended]
                     /\ exc' = exc
                ELSE /\ Raise("BrokenPipeError")
                     /\ outcome' = [outcome EXCEPT ![i] = "fatal"]
                     /\ wire' = wire
           ELSE /\ pc' = "for"
                /\ outcome' = [outcome EXCEPT ![i] = ended]
                /\ UNCHANGED <<wire, exc>>
    /\ UNCHANGED <<unit, n, sock, locals, inbuf, peer, requests, code, results,
                   instantiated, returned, acks, reads>>

\* line 83 inside the if of line 57: no DONE when the last was skipped
SendDone_OnlyAfterPayload ==
    /\ pc = "done"
    /\ IF outcome[n] \in {"skipped", "serialize-failed"}
       THEN /\ pc' = "exit"
            /\ UNCHANGED <<wire, exc>>
       ELSE IF peer = "open"
       THEN /\ sendall(0, b_DONE)
            /\ pc' = "exit"
            /\ exc' = exc
       ELSE /\ Raise("BrokenPipeError")
            /\ wire' = wire
    /\ UNCHANGED <<unit, n, sock, locals, inbuf, peer, hist>>

\* sock.sendall(b'DONE')
SendDone ==
    /\ pc = "done"
    /\ IF peer = "open"
       THEN /\ sendall(0, b_DONE)
            /\ pc' = "exit"
            /\ exc' = exc
       ELSE /\ Raise("BrokenPipeError")
            /\ wire' = wire
    /\ UNCHANGED <<unit, n, sock, locals, inbuf, peer, hist>>

\* a close() as the block's last statement, with no with and no finally
ExitWith_CloseAtEnd ==
    /\ pc \in {"exit", "raise"}
    /\ sock' = IF exc = "none" THEN "closed" ELSE sock
    /\ pc' = "terminated"
    /\ UNCHANGED <<unit, n, locals, exc, inbuf, peer, wire, hist>>

\* the with-block's __exit__, on the way out or with an exception in flight
ExitWith ==
    /\ pc \in {"exit", "raise"}
    /\ sock' = "closed"
    /\ pc' = "terminated"
    /\ UNCHANGED <<unit, n, locals, exc, inbuf, peer, wire, hist>>

Next ==
    \/ CreateSocket
    \/ Connect
    \/ ForNext
    \/ Request
    \/ Results
    \/ Dumps
    \/ WhileSend
    \/ ServerReply
    \/ ConsumeLengthHeader
    \/ RecvStatus
    \/ Decide
    \/ AfterWhile
    \/ SendDone
    \/ ExitWith

Spec == Init /\ [][Next]_vars

\* ------------------------------------------- the functions on their own

\* lengths are tried up to MaxDigits decimal digits; '<length N>' fills the
\* 32 bytes at 23 digits
MaxDigits == 24

\* payloads are built up to MaxPayload bytes
MaxPayload == 12

Repeat(c, k) == [j \in 1..k |-> c]

\* str(len(data)).encode() for the least and the greatest length of every
\* number of digits
LengthTexts ==
    {<<"0">>}
    \cup {<<"1">> \o Repeat("0", k - 1) : k \in 1..MaxDigits}
    \cup {Repeat("9", k) : k \in 1..MaxDigits}

\* payloads main() can send, and runs of every length up to MaxPayload
Payloads ==
    {Repeat("x", k) : k \in 0..MaxPayload}
    \cup {json_dumps(a).data : a \in {x \in Articles : x.kind = "list"}}
    \cup {b_length_open \o <<"5", ">">>, Repeat(" ", 3), b_DONE}

StatusHeads == {<<>>, b_MSG, <<"M", "S", "G">>, <<"E", "R", "R", "-">>}

StatusMiddles == {<<>>, <<"O", "K">>, <<"N", "O">>, <<"-">>}

StatusTails == {<<>>, b_DASH_DONE, b_DONE, <<"-", "D", "O", "N">>}

\* statuses with and without the prefix, the sentinel's middle and the suffix
StatusInputs ==
    {h \o m \o t : h \in StatusHeads, m \in StatusMiddles, t \in StatusTails}

HeaderTexts ==
    { b_length_open \o <<"7", ">">>,
      b_length_open \o <<"1", "1", ">">>,
      b_length_open \o <<"0", "0", "7", ">">>,
      b_length_open \o <<"-", "1", ">">>,
      b_length_open \o <<"+", "5", ">">>,
      b_length_open \o <<"1", "_", "0", ">">>,
      b_length_open \o <<"1", " ", "2", ">">>,
      b_length_open \o <<"0", "x", "1", "f", ">">>,
      b_length_open \o <<">">>,
      b_length_open \o <<"7">>,
      b_length_open \o <<"7", ">", ">">>,
      <<"7">>,
      <<"\t", "7">>,
      <<"o", "o", "p", "s">>,
      <<"l", "e", "n", "g", "t", "h">>,
      <<"N", "E", "X", "T">> }

\* what recv(32) may hand consume_length_header: the texts padded to the
\* field, the texts alone (a short read), headers of add_length_header, and
\* nothing (end of stream)
HeaderInputs ==
    {ljust(t, HEADER_WIDTH) : t \in HeaderTexts}
    \cup HeaderTexts
    \cup {length_header(str_int(k)) : k \in 0..MaxPayload}
    \cup {<<>>}

\* a call's result: what it raised, or what it returned
Returned(v) == [raised |-> "none", value |-> v]

InitUnit ==
    /\ n = 1
    /\ pc = "unit"
    /\ sock = "none"
    /\ i = 0
    /\ articles = Unbound
    /\ send_data = [bound |-> FALSE, data |-> <<>>]
    /\ max_attempts = 0
    /\ status_length = 0
    /\ status = <<>>
    /\ exc = "none"
    /\ inbuf = <<>>
    /\ peer = "open"
    /\ wire = <<>>
    /\ requests = [c \in 1..MaxClients |-> 0]
    /\ code = 0
    /\ results = [c \in 1..MaxClients |-> 0]
    /\ instantiated = 0
    /\ outcome = [c \in 1..MaxClients |-> "none"]
    /\ returned = [c \in 1..MaxClients |-> Unbound]
    /\ acks = {}
    /\ reads = 0
    /\ fn = "none"
    /\ arg = <<>>
    /\ ret = Returned(<<>>)

main_state == <<n, pc, sock, locals, exc, inbuf, peer, wire, hist>>

\* accept_status(status): the value, the branch taken, or the raise
CallAcceptStatus ==
    /\ pc = "unit"
    /\ \E s \in StatusInputs :
          /\ arg' = s
          /\ ret' = IF accept_status(s) = "raise"
                    THEN [raised |-> "InterruptedError",
                          value |-> [accepted |-> "raise",
                                     class |-> status_class(s)]]
                    ELSE Returned([accepted |-> accept_status(s),
                                   class |-> status_class(s)])
    /\ fn' = "accept_status"
    /\ UNCHANGED main_state

\* add_length_header(data)
CallAddLengthHeader ==
    /\ pc = "unit"
    /\ \E data \in Payloads :
          /\ arg' = data
          /\ ret' = Returned(add_length_header(data))
    /\ fn' = "add_length_header"
    /\ UNCHANGED main_state

\* lines 39-40 of add_length_header for a length given by its decimal text
CallLengthHeader ==
    /\ pc = "unit"
    /\ \E length \in LengthTexts :
          /\ arg' = length
          /\ ret' = Returned(length_header(length))
    /\ fn' = "length_header"
    /\ UNCHANGED main_state

\* what consume_length_header makes of the bytes recv(32) gave it
consume(raw_header) ==
    LET r == decode_length_header(raw_header)
    IN  IF r.ok THEN Returned(r)
        ELSE [raised |-> "ValueError", value |-> r]

\* consume_length_header(connection) on a stream that delivers raw
CallConsumeLengthHeader ==
    /\ pc = "unit"
    /\ \E raw \in HeaderInputs :
          /\ arg' = raw
          /\ ret' = consume(recv_data(<<raw>>, HEADER_WIDTH))
    /\ fn' = "consume_length_header"
    /\ UNCHANGED main_state

\* consume_length_header on the first 32 bytes of what add_length_header or
\* its header lines just returned
RoundTrip ==
    /\ pc = "unit"
    /\ fn \in {"add_length_header", "length_header"}
    /\ fn' = IF fn = "add_length_header" THEN "round_trip_data"
             ELSE "round_trip_length"
    /\ arg' = arg
    /\ ret' = consume(recv_data(<<ret.value>>, HEADER_WIDTH))
    /\ UNCHANGED main_state

NextUnit ==
    \/ CallAcceptStatus
    \/ CallAddLengthHeader
    \/ CallLengthHeader
    \/ CallConsumeLengthHeader
    \/ RoundTrip

SpecUnit == InitUnit /\ [][NextUnit]_vars

\* ------------------------------------------------------- reading the wire

Last(seq) == seq[Len(seq)]

WireData == [k \in 1..Len(wire) |-> wire[k].data]

\* payload frames sent for client c (a frame is never 4 bytes long)
Frames(c) == Len(SelectSeq(wire, LAMBDA m : m.by = c /\ m.data # b_NEXT))

\* NEXT tokens sent in client c's turn
NextsBy(c) == Len(SelectSeq(wire, LAMBDA m : m.by = c /\ m.data = b_NEXT))

\* occurrences of a control token
Tokens(tok) == Len(SelectSeq(wire, LAMBDA m : m.data = tok))

\* the run is over and nothing was raised
CleanEnd == pc = "terminated" /\ exc = "none"

\* the frame of what client c's results() returned
FrameOf(c) == add_length_header(json_dumps(returned[c]).data)

\* frame(payload_1), NEXT, ..., frame(payload_k), with a NEXT after the
\* k-th only if it is not the last registered
RECURSIVE FramedUpTo(_)
FramedUpTo(k) ==
    IF k = 0 THEN <<>>
    ELSE FramedUpTo(k - 1) \o <<FrameOf(k)>>
         \o (IF k < n THEN <<b_NEXT>> ELSE <<>>)

\* C1: when every collector's request() is in [200,300) and every payload is
\* accepted on its first attempt, what main sent is exactly frame(payload_1),
\* NEXT, ..., frame(payload_n), DONE, with no NEXT after the last frame.
C1_SessionFraming ==
    (/\ CleanEnd
     /\ \A c \in Clients : outcome[c] = "accepted"
     /\ acks = {"true"})
    => WireData = FramedUpTo(n) \o <<b_DONE>>

C1_Witness ==
    /\ CleanEnd
    /\ n = 3
    /\ \A c \in Clients : outcome[c] = "accepted"
    /\ acks = {"true"}
    /\ Len(wire) = 6
    /\ returned[1] # returned[2]

\* C2: every rejected attempt costs one of 3 attempts that each collector's
\* payload starts with: the frames sent for a collector and the attempts left
\* always add up to 3, a payload is dropped after exactly 3 frames, and when
\* every answer read was a rejection every collector that had a payload was
\* dropped after 3 frames and the run went on to the end.
C2_RetryBound ==
    /\ \A c \in Clients : Frames(c) <= 3
    /\ pc = "while" => Frames(i) + max_attempts = 3
    /\ pc \in {"reply", "recv_header", "recv_status", "decide"}
           => Frames(i) + max_attempts = 3 + 1
    /\ \A c \in Clients : outcome[c] = "exhausted" => Frames(c) = 3
    /\ (CleanEnd /\ acks = {"false"})
           => \A c \in Clients :
                  /\ requests[c] = 1
                  /\ outcome[c] \in {"skipped", "serialize-failed", "exhausted"}

C2_Witness ==
    /\ CleanEnd
    /\ acks = {"false"}
    /\ n = 2
    /\ outcome[1] = "exhausted" /\ outcome[2] = "exhausted"
    /\ Frames(1) = 3 /\ Frames(2) = 3

\* C3: an empty ack body aborts the run at once: InterruptedError is raised
\* from the decision, and once it is in flight the last thing on the wire is
\* that attempt's frame, no later collector is instantiated or asked, and no
\* DONE was sent.
C3_FatalShortCircuit ==
    /\ [](exc = "InterruptedError" =>
            /\ status = <<>>
            /\ pc \in {"raise", "terminated"}
            /\ wire # <<>>
            /\ Last(wire) = [by |-> i, data |-> add_length_header(send_data.data)]
            /\ NextsBy(i) = 0
            /\ Tokens(b_DONE) = 0
            /\ instantiated = i
            /\ \A c \in Clients : c > i => requests[c] = 0 /\ Frames(c) = 0)
    /\ [][(pc = "decide" /\ status = <<>>)
              => (exc' = "InterruptedError" /\ pc' = "raise" /\ wire' = wire)]_vars
    /\ [][exc # "none" => (wire' = wire /\ requests' = requests /\ exc' = exc)]_vars

C3_Witness ==
    /\ pc = "terminated"
    /\ exc = "InterruptedError"
    /\ n = 3
    /\ i = 2
    /\ requests[3] = 0
    /\ Frames(2) = 2

\* C4 as stated: a run that ends without a fatal error sent exactly n-1 NEXT
\* tokens, one after every collector but the last, whatever its outcome.
C4_NextAfterEveryNonLast ==
    CleanEnd => Tokens(b_NEXT) = n - 1

\* C4 amended: NEXT is sent once after a collector that is not the last
\* registered exactly when its request() was in [200,300) and its results
\* were serialized (its exchange ended accepted or exhausted); a skipped
\* collector, one whose serialization failure was caught, and the last
\* collector send none.
C4_NextAfterEveryExchange ==
    /\ \A c \in Clients : NextsBy(c) <= 1
    /\ \A c \in Clients :
           NextsBy(c) = 1 =>
               /\ c < n
               /\ Frames(c) >= 1
               /\ c < i \/ pc \in {"for", "raise", "terminated"}
    /\ CleanEnd =>
           \A c \in Clients :
               NextsBy(c) = (IF c < n /\ outcome[c] \in {"accepted", "exhausted"}
                             THEN 1 ELSE 0)

C4_Witness ==
    /\ CleanEnd
    /\ n = 3
    /\ outcome[1] = "skipped"
    /\ outcome[2] = "exhausted"
    /\ outcome[3] = "accepted"
    /\ Tokens(b_NEXT) = 1

\* C5: a run that ends without a fatal error has processed every collector,
\* sent DONE exactly once and last, and closed the socket; DONE is never sent
\* twice and nothing is ever sent after it.
C5_DoneTerminates ==
    /\ Tokens(b_DONE) <= 1
    /\ Tokens(b_DONE) = 1 => Last(wire).data = b_DONE
    /\ pc = "done" =>
           /\ i = n
           /\ \A c \in Clients :
                  outcome[c] \in {"accepted", "skipped", "exhausted",
                                  "serialize-failed"}
    /\ (pc \in {"exit", "terminated"} /\ exc = "none") => Tokens(b_DONE) = 1
    /\ CleanEnd => sock = "closed"

C5_Witness ==
    /\ CleanEnd
    /\ n = 3
    /\ outcome[1] = "accepted"
    /\ outcome[2] = "exhausted"
    /\ outcome[3] = "skipped"
    /\ Last(wire).data = b_DONE
    /\ sock = "closed"

\* C6: a request() outside [200,300) skips the collector: results() is not
\* called, nothing is sent in its turn, nothing is raised, and the loop goes
\* on to the next collector.
C6_SkipOnNoContent ==
    /\ []((pc \in {"for", "done", "exit"} /\ i >= 1 /\ ~(200 <= code /\ code < 300)) =>
            /\ outcome[i] = "skipped"
            /\ exc = "none"
            /\ results[i] = 0
            /\ Frames(i) = 0
            /\ NextsBy(i) = 0)
    /\ [](\A c \in Clients : outcome[c] = "skipped" =>
            /\ results[c] = 0
            /\ Frames(c) = 0
            /\ (CleanEnd /\ c < n) => requests[c + 1] = 1)
    /\ [][(pc = "request" /\ exc' = "none" /\ ~(200 <= code' /\ code' < 300))
              => (pc' = "for" /\ wire' = wire /\ results' = results)]_vars

C6_Witness ==
    /\ CleanEnd
    /\ n = 2
    /\ outcome[1] = "skipped"
    /\ outcome[2] = "accepted"
    /\ Len(wire) = 2

\* C7 as stated: a collector whose results() cannot be serialized never ends
\* the run: nothing is raised for it.
C7_SerializationFailureNonFatal ==
    \A c \in Clients :
        (results[c] = 1 /\ json_dumps(returned[c]).raised # "none")
            => outcome[c] # "fatal"

\* C8 as stated: an ack header that does not decode never ends the run: no
\* exception leaves main for it.
C8_MalformedHeaderRetryable ==
    "undecodable-header" \in acks => exc = "none"

\* C9: at the decision, a status that is neither empty nor MSG-OK-DONE never
\* ends the run: one attempt is taken off, nothing is raised, the payload is
\* kept, and the loop goes back to send it again or, with no attempt left,
\* ends the collector's turn; only the empty status raises there.
C9_OnlyClosedIsFatal ==
    /\ [][(pc = "decide" /\ status # <<>> /\ status # b_MSG_OK_DONE) =>
            /\ exc' = "none"
            /\ max_attempts' = max_attempts - 1
            /\ pc' = "while"
            /\ UNCHANGED <<i, send_data, wire>>]_vars
    /\ [][(pc = "while" /\ exc' = "none") =>
            IF max_attempts > 0
            THEN wire' = Append(wire, [by |-> i, data |-> add_length_header(send_data.data)])
            ELSE pc' = "after_while" /\ wire' = wire]_vars
    /\ [][(pc = "decide" /\ exc' # "none") => status = <<>>]_vars

C9_Witness ==
    /\ pc = "after_while"
    /\ max_attempts = 0
    /\ status_class(status) = "malformed-start"
    /\ Frames(i) = 3
    /\ exc = "none"

\* C10: however main ends, the socket it opened is closed.
C10_GuaranteedClose ==
    pc = "terminated" => sock # "open"

C10_Witness ==
    /\ pc = "terminated"
    /\ sock = "closed"
    /\ exc = "TypeError"

\* ------------------------------------------------- the codec and the status

\* a byte string that is one or more decimal digits and nothing else
IsDecimal(t) == t # <<>> /\ \A k \in 1..Len(t) : t[k] \in DigitSet

\* '<length N>' fits the header field when N has d digits
Fits(d) == Len(b_length_open) + d + 1 <= 32

\* C11: every status falls in exactly one class, by the rules in order: empty
\* is connection-closed and raises, MSG-OK-DONE alone is accepted, then no
\* MSG- prefix is malformed-start, then no -DONE suffix is malformed-end, and
\* the rest is malformed-other; nothing but the sentinel returns true.
C11_ClassificationTotal ==
    fn = "accept_status" =>
        LET s == arg
            c == ret.value.class
            a == ret.value.accepted
        IN  /\ c \in {"connection-closed", "accepted", "malformed-start",
                      "malformed-end", "malformed-other"}
            /\ c = "connection-closed" <=> s = <<>>
            /\ c = "accepted" <=> s = b_MSG_OK_DONE
            /\ c = "malformed-start" <=>
                   (s # <<>> /\ s # b_MSG_OK_DONE /\ ~startswith(s, b_MSG))
            /\ c = "malformed-end" <=>
                   (s # <<>> /\ startswith(s, b_MSG)
                    /\ ~endswith(s, b_DASH_DONE))
            /\ c = "malformed-other" <=>
                   (s # b_MSG_OK_DONE /\ startswith(s, b_MSG)
                    /\ endswith(s, b_DASH_DONE))
            /\ a = "true" <=> s = b_MSG_OK_DONE
            /\ a = "raise" <=> s = <<>>
            /\ ret.raised = "InterruptedError" <=> s = <<>>
            /\ a = "false" <=> c \in {"malformed-start", "malformed-end",
                                      "malformed-other"}

C11_Witness ==
    /\ fn = "accept_status"
    /\ arg = <<"M", "S", "G", "-", "D", "O", "N", "E">>
    /\ ret.value.class = "malformed-other"
    /\ ret.value.accepted = "false"

\* C12: consume_length_header on the first 32 bytes of a frame returns the
\* payload's length, for every payload built and for every length whose
\* '<length N>' fits the 32 bytes.
C12_HeaderRoundTrip ==
    /\ fn = "round_trip_data" =>
           /\ ret.raised = "none"
           /\ ~ret.value.negative
           /\ int_value(ret.value) = Len(arg)
    /\ (fn = "round_trip_length" /\ Fits(Len(arg))) =>
           /\ ret.raised = "none"
           /\ ~ret.value.negative
           /\ ret.value.digits = arg

C12_Witness ==
    /\ fn = "round_trip_data"
    /\ Len(arg) = 12
    /\ ret.raised = "none"
    /\ ret.value.digits = <<"1", "2">>

\* C13: a frame is 32 bytes longer than its payload; its first 32 bytes are
\* '<length ', the decimal digits of the payload's length, '>', then spaces
\* to the end; the payload follows unchanged.
C13_FrameShape ==
    fn = "add_length_header" =>
        LET f == ret.value
            h == SubSeq(f, 1, 32)
        IN  /\ ret.raised = "none"
            /\ Len(f) = 32 + Len(arg)
            /\ SubSeq(f, 33, Len(f)) = arg
            /\ SubSeq(h, 1, 8) = b_length_open
            /\ \E d \in 1..23 :
                  /\ IsDecimal(SubSeq(h, 9, 8 + d))
                  /\ d > 1 => h[9] # "0"
                  /\ digits_value(SubSeq(h, 9, 8 + d), 0) = Len(arg)
                  /\ h[9 + d] = ">"
                  /\ \A j \in (10 + d)..32 : h[j] = " "

C13_Witness ==
    /\ fn = "add_length_header"
    /\ arg = Repeat("x", 10)
    /\ Len(ret.value) = 42
    /\ SubSeq(ret.value, 1, 12) = b_length_open \o <<"1", "0", ">", " ">>

C15_DecodeRejectsNonLengths ==
    fn = "consume_length_header" =>
        /\ ~IsDecimal(strip(arg, HeaderStripChars)) => ret.raised # "none"
        /\ ret.raised = "none" => ~ret.value.negative

\* --------------------------------------------------- the order of a run

\* the payload frames on the wire, retries included
TotalFrames == Len(SelectSeq(wire, LAMBDA m : m.by # 0 /\ m.data # b_NEXT))

\* a collector's turn is over and main() went on
Resolved(c) ==
    outcome[c] \in {"accepted", "skipped", "serialize-failed", "exhausted"}

\* the bytes the server sent that main() has not read, over all segments
RECURSIVE buffered(_)
buffered(buf) ==
    IF buf = <<>> THEN 0 ELSE Len(Head(buf)) + buffered(Tail(buf))

\* C16: a frame is sent only when every frame before it has had its two
\* reads (header, then body); the reads never run ahead of the frames; and a
\* request() or a send for collector i happens only when every collector
\* before i is resolved, so that what was sent is in the collectors' order.
C16_NoPipelining ==
    /\ [](/\ LET sent == TotalFrames
             IN  /\ reads <= 2 * sent
                 /\ reads >= 2 * (sent - 1)
                 /\ pc \in {"recv_status", "decide"} => reads > 2 * (sent - 1)
                 /\ pc = "decide" => reads = 2 * sent
          /\ \A k \in 2..Len(wire) :
                wire[k].by # 0 =>
                    (wire[k - 1].by # 0 /\ wire[k - 1].by <= wire[k].by))
    /\ [][/\ wire' # wire => reads = 2 * TotalFrames
          /\ (wire' # wire \/ requests' # requests) =>
                 \A c \in 1..(i' - 1) : Resolved(c)]_vars

C16_Witness ==
    /\ n >= 2
    /\ i = 2
    /\ pc = "decide"
    /\ Frames(1) >= 2
    /\ Frames(2) = 1
    /\ reads = 2 * TotalFrames
    /\ outcome[1] = "accepted"

\* C17 as stated: whatever the segments the server's bytes arrive in, the
\* header read takes 32 bytes when 32 are on their way, and the body read
\* takes the declared count when that many are on their way.
C17_ExactAckReads ==
    [][/\ (pc = "recv_header" /\ buffered(inbuf) >= HEADER_WIDTH) =>
              buffered(inbuf') = buffered(inbuf) - HEADER_WIDTH
       /\ (pc = "recv_status" /\ status_length >= 0
           /\ buffered(inbuf) >= status_length) =>
              Len(status') = status_length]_vars

\* C18 as stated: in a run that ends without a fatal error, what follows a
\* NEXT on the wire is a payload frame, never DONE and never another NEXT.
C18_NextPromisesPayload ==
    CleanEnd =>
        \A k \in 1..Len(wire) :
            wire[k].data = b_NEXT =>
                /\ k < Len(wire)
                /\ wire[k + 1].data \notin {b_NEXT, b_DONE}

\* C19: once socket() or connect() has failed the error stays the one
\* main() leaves with, no collector is made, no request() is called, nothing
\* is sent and nothing is read.
C19_ConnectFailureFirst ==
    /\ [](exc \in {"OSError", "ConnectionRefusedError"} =>
              /\ pc \in {"raise", "terminated"}
              /\ instantiated = 0
              /\ i = 0
              /\ \A c \in 1..MaxClients : requests[c] = 0 /\ results[c] = 0
              /\ wire = <<>>
              /\ reads = 0)
    /\ [][(exc \in {"OSError", "ConnectionRefusedError"}) => exc' = exc]_vars

C19_Witness ==
    /\ n = 2
    /\ pc = "terminated"
    /\ exc = "ConnectionRefusedError"
    /\ sock = "closed"
    /\ wire = <<>>
    /\ instantiated = 0

\* C20: request() and results() are called at most once per collector; every
\* frame sent for a collector is the frame of what its results() returned,
\* so a retry is byte-identical to the first attempt; and once a collector's
\* attempt is accepted no further frame is sent for it.
C20_RetrySameDataStopOnAccept ==
    /\ [](\A c \in Clients :
              /\ requests[c] <= 1
              /\ results[c] <= 1
              /\ LET sent == SelectSeq(wire, LAMBDA m :
                                  m.by = c /\ m.data # b_NEXT)
                 IN  sent # <<>> =>
                        /\ sent[1].data = FrameOf(c)
                        /\ \A k \in 2..Len(sent) :
                               sent[k].data = sent[1].data)
    /\ [][\A c \in Clients :
              outcome[c] = "accepted" => Frames(c)' = Frames(c)]_vars

C20_Witness ==
    /\ pc = "terminated"
    /\ exc = "none"
    /\ Frames(1) = 3
    /\ outcome[1] = "accepted"
    /\ wire[1].data = wire[3].data
    /\ requests[1] = 1

====
